---- MODULE Spec2Model ----
(***************************************************************************)
(* A model of the host-side code of the tetanes NES emulator:             *)
(*   - mapper::load_rom                     (src/src/mapper.rs)            *)
(*   - the SDL user interface Ui            (src/src/ui.rs)                *)
(*   - the windowed-sinc FIR filter         (src/src/audio/window_sinc.rs) *)
(*   - replay and debugger stepping of Nes  (src/src/nes/event.rs)         *)
(***************************************************************************)
EXTENDS Integers, Sequences, FiniteSets, TLC

VARIABLES
    rom,          \* mapper.rs: the outcome of Cartridge::from_rom given to load_rom
    mapper,       \* mapper.rs: the Result<MapperRef> returned by load_rom
    ui,           \* ui.rs: the fields of struct Ui (console, window, input included)
    pc,           \* ui.rs: position of Ui::run
    turbo,        \* ui.rs: the local `turbo` of poll_events
    frames_left,  \* ui.rs: remaining iterations of `for _ in 0..frames_to_run`
    nes,          \* nes/event.rs: the fields of struct Nes that the handlers use
    applied,      \* nes/event.rs: the events the last step gave to handle_action in replay_action
    current_frame, \* nes/event.rs: the local `current_frame` of the replay_action the last step made, or -1
    prog,         \* the control deck: the instructions of the loaded program
    cpu,          \* the control deck: the CPU (pc, stack, halted)
    dbg,          \* nes/event.rs: position and locals of the running debug_step_*
    ws,           \* audio/window_sinc.rs: the WindowSinc under construction / built
    builder,      \* ui.rs: the fields of struct UiBuilder
    built,        \* ui.rs: the last call of UiBuilder::build: the builder it read, its result
    call          \* nes/event.rs: the last input handler called, its arguments and result

mapperVars == <<rom, mapper>>
uiVars == <<ui, pc, turbo, frames_left>>
replayVars == <<nes, applied, current_frame>>
debugVars == <<prog, cpu, dbg>>
builderVars == <<builder, built>>
vars == <<rom, mapper, ui, pc, turbo, frames_left, nes, applied, current_frame,
          prog, cpu, dbg, ws, builder, built, call>>
notMapper == <<uiVars, replayVars, debugVars, ws, builderVars, call>>
notUi == <<mapperVars, replayVars, debugVars, ws, builderVars, call>>
notNes == <<mapperVars, uiVars, debugVars, ws, builderVars, call>>
notDebug == <<mapperVars, uiVars, applied, current_frame, ws, builderVars, call>>
notSinc == <<mapperVars, uiVars, replayVars, debugVars, builderVars, call>>
notBuilder == <<mapperVars, uiVars, replayVars, debugVars, ws, call>>
notJoypad == <<mapperVars, uiVars, applied, current_frame, debugVars, ws, builderVars>>

(***************************************************************************)
(* Bounds                                                                  *)
(***************************************************************************)
MaxMapperNum == 255     \* largest header mapper number tried (iNES: 8 bits)
MaxRoms == 2            \* largest number of roms util::find_roms returns
MaxFrame == 3           \* largest frame number of the control deck
MaxBuffer == 3          \* largest number of recorded replay events
MemSize == 3            \* number of addresses of the (scaled-down) CPU address space
MaxStack == 2           \* number of return addresses the (scaled-down) stack holds
MaxTaps == 17           \* largest number of taps of the filters constructed
MaxInversions == 1      \* largest number of spectral_invert calls on one filter
MaxSaveSlot == 3        \* largest save slot given to UiBuilder::save_slot
MaxScale == 2           \* largest scale given to UiBuilder::scale
MaxPadId == 2           \* largest controller id of an SDL controller event
MaxMessages == 2        \* largest number of queued messages
MaxLoaded == 2          \* largest number of events of a replay that is played back

(***************************************************************************)
(* mapper.rs                                                               *)
(***************************************************************************)
MapperKinds == <<"Nrom", "Sxrom", "Uxrom", "Cnrom", "Txrom">>

\* a load_rom whose wildcard arm starts one number too late
load_rom_Off(cart) ==
    IF cart.parse # "Ok"
    THEN [status |-> "Err", error |-> "cartridge", num |-> -1, kind |-> "None"]
    ELSE IF cart.mapper_num \in 0..5
         THEN [status |-> "Ok", error |-> "none", num |-> cart.mapper_num,
               kind |-> IF cart.mapper_num = 5 THEN "Txrom" ELSE MapperKinds[cart.mapper_num + 1]]
         ELSE [status |-> "Err", error |-> "unsupported mapper number",
               num |-> cart.mapper_num, kind |-> "None"]

\* pub fn load_rom(rom) -> Result<MapperRef>
load_rom(cart) ==
    IF cart.parse # "Ok"
    THEN \* `Cartridge::from_rom(rom)?`
         [status |-> "Err", error |-> "cartridge", num |-> -1, kind |-> "None"]
    ELSE CASE cart.mapper_num = 0 ->
                [status |-> "Ok", error |-> "none", num |-> 0, kind |-> "Nrom"]
           [] cart.mapper_num = 1 ->
                [status |-> "Ok", error |-> "none", num |-> 1, kind |-> "Sxrom"]
           [] cart.mapper_num = 2 ->
                [status |-> "Ok", error |-> "none", num |-> 2, kind |-> "Uxrom"]
           [] cart.mapper_num = 3 ->
                [status |-> "Ok", error |-> "none", num |-> 3, kind |-> "Cnrom"]
           [] cart.mapper_num = 4 ->
                [status |-> "Ok", error |-> "none", num |-> 4, kind |-> "Txrom"]
           [] OTHER ->
                [status |-> "Err", error |-> "unsupported mapper number",
                 num |-> cart.mapper_num, kind |-> "None"]

NoRom == [parse |-> "None", mapper_num |-> 0]
NoMapper == [status |-> "None", error |-> "none", num |-> -1, kind |-> "None"]

InitMapper == rom = NoRom /\ mapper = NoMapper

\* one call of load_rom on a rom file that parses or does not
LoadRom ==
    \E p \in {"Ok", "Err"}, n \in 0..MaxMapperNum :
        /\ rom' = [parse |-> p, mapper_num |-> IF p = "Ok" THEN n ELSE 0]
        /\ mapper' = load_rom(rom')
        /\ UNCHANGED notMapper

(***************************************************************************)
(* ui.rs: constants                                                        *)
(***************************************************************************)
DEFAULT_SPEED == 100
MIN_SPEED == 25
MAX_SPEED == 200
GAMEPAD_AXIS_DEADZONE == 8000

(***************************************************************************)
(* ui.rs: state                                                            *)
(***************************************************************************)
\* input::Gamepad, all buttons released
NewGamepad ==
    [a |-> FALSE, b |-> FALSE, turbo_a |-> FALSE, turbo_b |-> FALSE,
     select |-> FALSE, start |-> FALSE,
     up |-> FALSE, down |-> FALSE, left |-> FALSE, right |-> FALSE]

\* Console::init: what the Ui can observe of the console
NewConsole ==
    [powered_on |-> FALSE,     \* power_on has succeeded
     power_off_calls |-> 0,    \* number of calls of power_off
     state_slot |-> 0,         \* slot of the last save_state / load_state (0: none yet)
     audio |-> 0,              \* frames of samples held by audio_samples()
     speed |-> DEFAULT_SPEED,  \* set_speed, in percent
     debug |-> FALSE]

\* Window::init(scale, fullscreen)
Window_init(scale, fullscreen) ==
    [fullscreen |-> fullscreen, scale |-> scale, enqueued |-> 0]

\* the window of a default builder
NewWindow == Window_init(1, FALSE)

\* pub fn new() -> Self (UiBuilder); the paths are "" (PathBuf::new()),
\* "cwd" (env::current_dir()) and "roms" (a path given by the caller)
UiBuilder_new ==
    [path |-> "", debug |-> FALSE, fullscreen |-> FALSE, sound |-> TRUE,
     save_slot |-> 1, scale |-> 1]

\* the setters of UiBuilder; path(None) is env::current_dir().unwrap_or_default():
\* the current directory, or the empty path when current_dir() fails (cwd_ok false)
set_path(b, path, cwd_ok) ==
    [b EXCEPT !.path = IF path # "None" THEN path
                       ELSE IF cwd_ok THEN "cwd" ELSE ""]
set_debug(b, debug) == [b EXCEPT !.debug = debug]
set_fullscreen(b, fullscreen) == [b EXCEPT !.fullscreen = fullscreen]
set_sound(b, sound) == [b EXCEPT !.sound = sound]
set_save_slot(b, save_slot) == [b EXCEPT !.save_slot = save_slot]
set_scale(b, scale) == [b EXCEPT !.scale = scale]

\* pub fn build(&self) -> Result<Ui>; window_ok: Window::init succeeds
UiBuilder_build(b, window_ok) ==
    IF ~window_ok
    THEN [res |-> "Err", ui |-> <<>>]
    ELSE [res |-> "Ok",
          ui |-> [path |-> b.path,
                  paused |-> FALSE,
                  should_close |-> FALSE,
                  sound_enabled |-> TRUE,
                  fastforward |-> FALSE,
                  lctrl |-> FALSE,
                  save_slot |-> 1,
                  turbo_clock |-> 0,
                  speed |-> DEFAULT_SPEED,
                  console |-> [NewConsole EXCEPT !.debug = b.debug],
                  window |-> Window_init(b.scale, b.fullscreen),
                  input |-> [gamepad1 |-> NewGamepad, gamepad2 |-> NewGamepad],
                  gamepad1 |-> FALSE,
                  gamepad2 |-> FALSE]]

\* UiBuilder::new().build(): the Ui that is run
build == UiBuilder_build(UiBuilder_new, TRUE).ui

Done(u) == [ui |-> u, res |-> "Ok"]
Failed(u) == [ui |-> u, res |-> "Err"]
Panicked(u) == [ui |-> u, res |-> "Panic"]

(***************************************************************************)
(* ui.rs: the console and the window, as far as the Ui drives them         *)
(***************************************************************************)
\* console.save_state(slot) / console.load_state(slot): fails or uses the slot
console_state_op(u, slot, io_ok) ==
    IF io_ok THEN Done([u EXCEPT !.console.state_slot = slot]) ELSE Failed(u)

\* console.set_speed(self.speed / DEFAULT_SPEED)
console_set_speed(u) == [u EXCEPT !.console.speed = u.speed]

(***************************************************************************)
(* ui.rs: input handlers                                                   *)
(***************************************************************************)
\* a clock_turbo that forgets the second gamepad
clock_turbo_Pad1Only(u, t) ==
    LET g1 == u.input.gamepad1
    IN [u EXCEPT
          !.input.gamepad1.a = IF g1.turbo_a THEN t ELSE g1.a,
          !.input.gamepad1.b = IF g1.turbo_b THEN t ELSE g1.b]

\* fn clock_turbo(&mut self, turbo: bool)
clock_turbo(u, t) ==
    LET g1 == u.input.gamepad1
        g2 == u.input.gamepad2
    IN [u EXCEPT
          !.input.gamepad1.a = IF g1.turbo_a THEN t ELSE g1.a,
          !.input.gamepad1.b = IF g1.turbo_b THEN t ELSE g1.b,
          !.input.gamepad2.a = IF g2.turbo_a THEN t ELSE g2.a,
          !.input.gamepad2.b = IF g2.turbo_b THEN t ELSE g2.b]

\* fn toggle_menu(&mut self)
toggle_menu(u) == [u EXCEPT !.paused = ~u.paused]

\* a toggle_fastforward that doubles the current speed
toggle_fastforward_Doubles(u) ==
    LET ff == ~u.fastforward
    IN console_set_speed([u EXCEPT !.fastforward = ff,
                                   !.speed = IF ff THEN 2 * u.speed ELSE DEFAULT_SPEED])

\* fn toggle_fastforward(&mut self)
toggle_fastforward(u) ==
    LET ff == ~u.fastforward
    IN console_set_speed([u EXCEPT !.fastforward = ff,
                                   !.speed = IF ff THEN MAX_SPEED ELSE DEFAULT_SPEED])

\* a handle_keyboard_event that leaves the primary button as it is when the
\* turbo key is released
handle_keyboard_event_StuckPrimary(u, key, down, t) ==
    CASE key = "Z" -> [u EXCEPT !.input.gamepad1.a = down]
      [] key = "X" -> [u EXCEPT !.input.gamepad1.b = down]
      [] key = "A" -> [u EXCEPT !.input.gamepad1.turbo_a = down,
                                !.input.gamepad1.a = IF down THEN t ELSE @]
      [] key = "S" -> [u EXCEPT !.input.gamepad1.turbo_b = down,
                                !.input.gamepad1.b = IF down THEN t ELSE @]
      [] key = "RShift" -> [u EXCEPT !.input.gamepad1.select = down]
      [] key = "Return" -> [u EXCEPT !.input.gamepad1.start = down]
      [] key = "Up" -> [u EXCEPT !.input.gamepad1.up = down]
      [] key = "Down" -> [u EXCEPT !.input.gamepad1.down = down]
      [] key = "Left" -> [u EXCEPT !.input.gamepad1.left = down]
      [] key = "Right" -> [u EXCEPT !.input.gamepad1.right = down]
      [] OTHER -> u

\* fn handle_keyboard_event(&mut self, key, down, turbo)
handle_keyboard_event(u, key, down, t) ==
    CASE key = "Z" -> [u EXCEPT !.input.gamepad1.a = down]
      [] key = "X" -> [u EXCEPT !.input.gamepad1.b = down]
      [] key = "A" -> [u EXCEPT !.input.gamepad1.turbo_a = down,
                                !.input.gamepad1.a = t /\ down]
      [] key = "S" -> [u EXCEPT !.input.gamepad1.turbo_b = down,
                                !.input.gamepad1.b = t /\ down]
      [] key = "RShift" -> [u EXCEPT !.input.gamepad1.select = down]
      [] key = "Return" -> [u EXCEPT !.input.gamepad1.start = down]
      [] key = "Up" -> [u EXCEPT !.input.gamepad1.up = down]
      [] key = "Down" -> [u EXCEPT !.input.gamepad1.down = down]
      [] key = "Left" -> [u EXCEPT !.input.gamepad1.left = down]
      [] key = "Right" -> [u EXCEPT !.input.gamepad1.right = down]
      [] OTHER -> u

\* the number N of the number key N
KeyNumber(key) ==
    CASE key = "Num1" -> 1
      [] key = "Num2" -> 2
      [] key = "Num3" -> 3
      [] key = "Num4" -> 4

\* the slot a number key selects in handle_keydown (ui.rs:240-243)
save_slot_of_key(key) ==
    CASE key = "Num1" -> 1
      [] key = "Num2" -> 2
      [] key = "Num3" -> 2
      [] key = "Num4" -> 3

NumKeys == {"Num1", "Num2", "Num3", "Num4"}

\* fn handle_keydown(&mut self, key, turbo) -> Result<()>
handle_keydown(u, key, t, io_ok) ==
    CASE key = "Escape" -> Done(toggle_menu(u))
      [] key = "LCtrl" -> Done([u EXCEPT !.lctrl = TRUE])
      [] key = "O" /\ u.lctrl -> Done(u)
      [] key = "Q" /\ u.lctrl -> Done([u EXCEPT !.should_close = TRUE])
      [] key = "R" /\ u.lctrl -> Done(u)     \* console.reset()
      [] key = "P" /\ u.lctrl -> Done(u)     \* console.power_cycle()
      [] key = "Equals" /\ u.lctrl ->
            IF u.speed < MAX_SPEED
            THEN Done(console_set_speed([u EXCEPT !.speed = u.speed + 25]))
            ELSE Done(u)
      [] key = "Minus" /\ u.lctrl ->
            IF u.speed > MIN_SPEED
            THEN Done(console_set_speed([u EXCEPT !.speed = u.speed - 25]))
            ELSE Done(u)
      [] key = "Space" -> Done(toggle_fastforward(u))
      [] key \in NumKeys /\ u.lctrl -> Done([u EXCEPT !.save_slot = save_slot_of_key(key)])
      [] key = "S" /\ u.lctrl -> console_state_op(u, u.save_slot, io_ok)
      [] key = "L" /\ u.lctrl -> console_state_op(u, u.save_slot, io_ok)
      [] key = "M" /\ u.lctrl -> Done([u EXCEPT !.sound_enabled = ~u.sound_enabled])
      [] key = "V" /\ u.lctrl -> Done(u)
      [] key = "D" /\ u.lctrl -> Done([u EXCEPT !.console.debug = TRUE])
      [] key = "Return" /\ u.lctrl ->
            Done([u EXCEPT !.window.fullscreen = ~u.window.fullscreen])
      [] key = "F10" -> Done(u)
      [] key = "F9" -> Done(u)
      [] OTHER -> Done(handle_keyboard_event(u, key, TRUE, t))

PadName(id) == IF id = 0 THEN "gamepad1" ELSE "gamepad2"

\* fn handle_gamepad_button(&mut self, gamepad_id, button, down, turbo)
handle_gamepad_button(u, id, button, down, t) ==
    IF id \notin {0, 1}
    THEN Panicked(u)
    ELSE LET g == PadName(id) IN
         Done(CASE button = "A" -> [u EXCEPT !.input[g].a = down]
                [] button = "B" -> [u EXCEPT !.input[g].b = down]
                [] button = "X" -> [u EXCEPT !.input[g].turbo_a = down,
                                             !.input[g].a = t /\ down]
                [] button = "Y" -> [u EXCEPT !.input[g].turbo_b = down,
                                             !.input[g].b = t /\ down]
                [] button = "Back" -> [u EXCEPT !.input[g].select = down]
                [] button = "Start" -> [u EXCEPT !.input[g].start = down]
                [] button = "DPadUp" -> [u EXCEPT !.input[g].up = down]
                [] button = "DPadDown" -> [u EXCEPT !.input[g].down = down]
                [] button = "DPadLeft" -> [u EXCEPT !.input[g].left = down]
                [] button = "DPadRight" -> [u EXCEPT !.input[g].right = down]
                [] OTHER -> u)

\* fn handle_gamepad_axis(&mut self, gamepad_id, axis, value, turbo)
handle_gamepad_axis(u, id, axis, value, t) ==
    IF id \notin {0, 1}
    THEN Panicked(u)
    ELSE LET g == PadName(id) IN
         Done(CASE axis = "LeftX" ->
                     IF value < -GAMEPAD_AXIS_DEADZONE
                     THEN [u EXCEPT !.input[g].left = TRUE]
                     ELSE IF value > GAMEPAD_AXIS_DEADZONE
                          THEN [u EXCEPT !.input[g].right = TRUE]
                          ELSE [u EXCEPT !.input[g].left = FALSE,
                                         !.input[g].right = FALSE]
                [] axis = "LeftY" ->
                     IF value < -GAMEPAD_AXIS_DEADZONE
                     THEN [u EXCEPT !.input[g].up = TRUE]
                     ELSE IF value > GAMEPAD_AXIS_DEADZONE
                          THEN [u EXCEPT !.input[g].down = TRUE]
                          ELSE [u EXCEPT !.input[g].up = FALSE,
                                         !.input[g].down = FALSE]
                [] axis = "TriggerLeft" ->
                     IF value > GAMEPAD_AXIS_DEADZONE
                     THEN [u EXCEPT !.input[g].turbo_a = TRUE, !.input[g].a = t]
                     ELSE [u EXCEPT !.input[g].turbo_a = FALSE, !.input[g].a = FALSE]
                [] axis = "TriggerRight" ->
                     IF value > GAMEPAD_AXIS_DEADZONE
                     THEN [u EXCEPT !.input[g].turbo_b = TRUE, !.input[g].b = t]
                     ELSE [u EXCEPT !.input[g].turbo_b = FALSE, !.input[g].b = FALSE]
                [] OTHER -> u)

\* the body of `for event in events { match event { .. } }` in poll_events
handle_event(u, e, t, io_ok) ==
    CASE e.type = "ControllerDeviceAdded" ->
            IF e.which \in {0, 1}
            THEN IF io_ok THEN Done([u EXCEPT ![PadName(e.which)] = TRUE]) ELSE Failed(u)
            ELSE Done(u)
      [] e.type = "Quit" -> Done([u EXCEPT !.should_close = TRUE])
      [] e.type = "KeyDown" -> handle_keydown(u, e.key, t, io_ok)
      [] e.type = "KeyUp" ->
            IF e.key = "LCtrl"
            THEN Done([u EXCEPT !.lctrl = FALSE])
            ELSE Done(handle_keyboard_event(u, e.key, FALSE, t))
      [] e.type = "ControllerButtonDown" ->
            CASE e.button = "LeftStick" -> Done(toggle_menu(u))
              [] e.button = "RightStick" -> Done(toggle_fastforward(u))
              [] e.button = "LeftShoulder" -> console_state_op(u, u.save_slot, io_ok)
              [] e.button = "RightShoulder" -> console_state_op(u, u.save_slot, io_ok)
              [] OTHER -> handle_gamepad_button(u, e.which, e.button, TRUE, t)
      [] e.type = "ControllerButtonUp" ->
            handle_gamepad_button(u, e.which, e.button, FALSE, t)
      [] e.type = "ControllerAxisMotion" ->
            handle_gamepad_axis(u, e.which, e.axis, e.value, t)
      [] OTHER -> Done(u)

(***************************************************************************)
(* ui.rs: Ui::run                                                          *)
(*   pc: "start"   before find_roms                                        *)
(*       "loop"    at `while !self.should_close`                           *)
(*       "events"  inside poll_events, in `for event in events`            *)
(*       "frames"  in `if !self.paused { .. }`, at the frame loop          *)
(*       "power_off" after the loop, before console.power_off()            *)
(*       "start_failed": run returned an error of lines 119-126            *)
(*       "returned_ok" / "returned_err": run returned from line 129 or     *)
(*                  152-153; "panicked": a handler panicked                *)
(***************************************************************************)
\* (self.speed / DEFAULT_SPEED).floor(), raised to 1 when 0
frames_to_run(speed) ==
    LET n == speed \div DEFAULT_SPEED IN IF n = 0 THEN 1 ELSE n

InitUi ==
    /\ ui = build
    /\ pc = "start"
    /\ turbo = FALSE
    /\ frames_left = 0

\* lines 119-126: find the roms; with exactly one rom load it, power on, load the state
\* `fail` names the first call that returns an error
RunStart ==
    /\ pc = "start"
    /\ \E nroms \in 0..MaxRoms,
          fail \in {"none", "find_roms", "load_rom", "power_on", "load_state"} :
          /\ (fail \in {"load_rom", "power_on", "load_state"}) => nroms = 1
          /\ ui' = IF nroms = 1 /\ fail \in {"none", "load_state"}
                   THEN [ui EXCEPT !.console.powered_on = TRUE,
                                   !.console.state_slot =
                                        IF fail = "none" THEN ui.save_slot ELSE 0]
                   ELSE ui
          /\ pc' = IF fail = "none" THEN "loop" ELSE "start_failed"
    /\ UNCHANGED <<turbo, frames_left, notUi>>

\* a loop condition that tests paused instead of should_close
LoopCheck_TestsPaused ==
    /\ pc = "loop"
    /\ pc' = IF ui.paused THEN "power_off" ELSE "poll"
    /\ UNCHANGED <<ui, turbo, frames_left, notUi>>

\* line 128: the loop condition
LoopCheck ==
    /\ pc = "loop"
    /\ pc' = IF ui.should_close THEN "power_off" ELSE "poll"
    /\ UNCHANGED <<ui, turbo, frames_left, notUi>>

\* lines 157-163: compute turbo, clock the turbo buttons, collect the events
PollBegin ==
    /\ pc = "poll"
    /\ turbo' = (ui.turbo_clock < 3)
    /\ ui' = clock_turbo(ui, turbo')
    /\ pc' = "events"
    /\ UNCHANGED <<frames_left, notUi>>

\* lines 164-199: one iteration of the event loop, on an event of the set E;
\* io_ok: whether the console / controller call made by the handler succeeds
HandleEvent(E) ==
    /\ pc = "events"
    /\ \E e \in E, io_ok \in BOOLEAN :
          LET r == handle_event(ui, e, turbo, io_ok) IN
          /\ ui' = r.ui
          /\ pc' = CASE r.res = "Ok" -> "events"
                     [] r.res = "Err" -> "returned_err"
                     [] OTHER -> "panicked"
    /\ UNCHANGED <<turbo, frames_left, notUi>>

\* an iteration that clocks its frames whether or not the Ui is paused
PollEnd_IgnoresPaused ==
    /\ pc = "events"
    /\ turbo' = FALSE
    /\ pc' = "frames" /\ frames_left' = frames_to_run(ui.speed)
    /\ UNCHANGED <<ui, notUi>>

\* line 200 and lines 130-134: the events are exhausted, poll_events returns Ok
PollEnd ==
    /\ pc = "events"
    /\ turbo' = FALSE
    /\ IF ui.paused
       THEN pc' = "loop" /\ frames_left' = 0
       ELSE pc' = "frames" /\ frames_left' = frames_to_run(ui.speed)
    /\ UNCHANGED <<ui, notUi>>

\* lines 135-138: one iteration of the frame loop
ClockFrame ==
    /\ pc = "frames"
    /\ frames_left > 0
    /\ ui' = [ui EXCEPT !.console.audio = ui.console.audio + 1,
                        !.turbo_clock = (1 + ui.turbo_clock) % 6]
    /\ frames_left' = frames_left - 1
    /\ UNCHANGED <<pc, turbo, notUi>>

\* the audio part of RenderAudio with the buffer cleared only when sound is on
drain_audio_SoundOnly(u) ==
    IF u.sound_enabled
    THEN [u EXCEPT !.window.enqueued = u.console.audio, !.console.audio = 0]
    ELSE u

\* lines 142-148: enqueue the samples when sound is enabled; clear them
drain_audio(u) ==
    IF u.sound_enabled
    THEN [u EXCEPT !.window.enqueued = u.console.audio, !.console.audio = 0]
    ELSE [u EXCEPT !.console.audio = 0]

\* lines 139-148: render the frame, drain the audio samples
RenderAudio ==
    /\ pc = "frames"
    /\ frames_left = 0
    /\ ui' = drain_audio(ui)
    /\ pc' = "loop"
    /\ UNCHANGED <<turbo, frames_left, notUi>>

\* lines 152-153: `self.console.power_off()?; Ok(())`
PowerOff ==
    /\ pc = "power_off"
    /\ ui' = [ui EXCEPT !.console.power_off_calls = ui.console.power_off_calls + 1]
    /\ \E ok \in BOOLEAN : pc' = IF ok THEN "returned_ok" ELSE "returned_err"
    /\ UNCHANGED <<turbo, frames_left, notUi>>

(***************************************************************************)
(* ui.rs: the events the specifications feed to poll_events                *)
(***************************************************************************)
KeyDown(k) == [type |-> "KeyDown", key |-> k]
KeyUp(k) == [type |-> "KeyUp", key |-> k]
ButtonDown(id, b) == [type |-> "ControllerButtonDown", which |-> id, button |-> b]
ButtonUp(id, b) == [type |-> "ControllerButtonUp", which |-> id, button |-> b]
AxisMotion(id, a, v) == [type |-> "ControllerAxisMotion", which |-> id, axis |-> a, value |-> v]

\* window and emulator control: quit, pause, speed, save slots, save/load state, sound
ControlKeys == {"Escape", "LCtrl", "Q", "Equals", "Minus", "Space",
                "Num1", "Num2", "Num3", "Num4", "S", "L", "M"}
ControlEvents ==
    {[type |-> "Quit"]}
    \cup {KeyDown(k) : k \in ControlKeys}
    \cup {KeyUp("LCtrl"), KeyUp("S")}
    \cup {ButtonDown(0, b) : b \in {"LeftStick", "RightStick", "LeftShoulder", "RightShoulder"}}

\* the A / B buttons and their turbo buttons, on the keyboard and on both gamepads
TurboEvents ==
    {[type |-> "Quit"]}
    \cup {KeyDown(k) : k \in {"Z", "X", "A", "S", "Space", "Escape"}}
    \cup {KeyUp(k) : k \in {"Z", "X", "A", "S"}}
    \cup {ButtonDown(1, b) : b \in {"A", "X"}}
    \cup {ButtonUp(1, b) : b \in {"A", "X"}}
    \cup {AxisMotion(1, "TriggerRight", v) : v \in {0, GAMEPAD_AXIS_DEADZONE + 1}}

\* the stick events: both sticks' axes of both gamepads, at the values around
\* the deadzone
AxisValues ==
    {-GAMEPAD_AXIS_DEADZONE - 1, -GAMEPAD_AXIS_DEADZONE, 0,
     GAMEPAD_AXIS_DEADZONE, GAMEPAD_AXIS_DEADZONE + 1}
AxisEvents ==
    {[type |-> "Quit"]}
    \cup {AxisMotion(id, axis, v) : id \in {0, 1}, axis \in {"LeftX", "LeftY"},
                                    v \in AxisValues}

\* the controller events of the controllers 0..MaxPadId: a controller is
\* added, a button goes down or up, the left stick moves
DeviceAdded(id) == [type |-> "ControllerDeviceAdded", which |-> id]
PadIds == 0..MaxPadId
PadEvents ==
    {[type |-> "Quit"]}
    \cup {DeviceAdded(id) : id \in PadIds}
    \cup {ButtonDown(id, b) : id \in PadIds, b \in {"A", "X"}}
    \cup {ButtonUp(id, b) : id \in PadIds, b \in {"A", "X"}}
    \cup {AxisMotion(id, "LeftX", v) : id \in PadIds, v \in {0, GAMEPAD_AXIS_DEADZONE + 1}}

(***************************************************************************)
(* nes/event.rs: joypad input                                              *)
(***************************************************************************)
Slots == {"One", "Two"}

\* Joypad::set_button on the set of pressed buttons (JoypadBtnState)
set_button(joypad, button, pressed) ==
    IF pressed THEN joypad \cup {button} ELSE joypad \ {button}

\* a handle_joypad_pressed that presses a direction without releasing its opposite
handle_joypad_pressed_NoExclusion(n, slot, button, pressed) ==
    IF n.mode # "Playing"
    THEN [nes |-> n, handled |-> FALSE]
    ELSE LET j2 == set_button(n.joypads[slot], button, pressed)
             j3 == CASE button = "TurboA" -> set_button(j2, "A", pressed)
                     [] button = "TurboB" -> set_button(j2, "B", pressed)
                     [] OTHER -> j2
         IN [nes |-> [n EXCEPT !.joypads[slot] = j3], handled |-> TRUE]

\* a handle_joypad_pressed that ignores the mode when a button is released
handle_joypad_pressed_ReleaseAnyMode(n, slot, button, pressed) ==
    IF n.mode # "Playing" /\ pressed
    THEN [nes |-> n, handled |-> FALSE]
    ELSE LET j0 == n.joypads[slot]
             j1 == IF ~n.concurrent_dpad /\ pressed
                   THEN CASE button = "Left" -> set_button(j0, "Right", FALSE)
                          [] button = "Right" -> set_button(j0, "Left", FALSE)
                          [] button = "Up" -> set_button(j0, "Down", FALSE)
                          [] button = "Down" -> set_button(j0, "Up", FALSE)
                          [] OTHER -> j0
                   ELSE j0
             j2 == set_button(j1, button, pressed)
             j3 == CASE button = "TurboA" -> set_button(j2, "A", pressed)
                     [] button = "TurboB" -> set_button(j2, "B", pressed)
                     [] OTHER -> j2
         IN [nes |-> [n EXCEPT !.joypads[slot] = j3], handled |-> TRUE]

\* fn handle_joypad_pressed(&mut self, slot, button, pressed) -> bool
handle_joypad_pressed(n, slot, button, pressed) ==
    IF n.mode # "Playing"
    THEN [nes |-> n, handled |-> FALSE]
    ELSE LET j0 == n.joypads[slot]
             j1 == IF ~n.concurrent_dpad /\ pressed
                   THEN CASE button = "Left" -> set_button(j0, "Right", FALSE)
                          [] button = "Right" -> set_button(j0, "Left", FALSE)
                          [] button = "Up" -> set_button(j0, "Down", FALSE)
                          [] button = "Down" -> set_button(j0, "Up", FALSE)
                          [] OTHER -> j0
                   ELSE j0
             j2 == set_button(j1, button, pressed)
             j3 == CASE button = "TurboA" -> set_button(j2, "A", pressed)
                     [] button = "TurboB" -> set_button(j2, "B", pressed)
                     [] OTHER -> j2
         IN [nes |-> [n EXCEPT !.joypads[slot] = j3], handled |-> TRUE]

Joypad(b) == [kind |-> "Joypad", button |-> b]
NesAction(state) == [kind |-> "Nes", state |-> state]

FeatureAction(feature) == [kind |-> "Feature", feature |-> feature]

\* self.add_message(text)
add_message(n, text) == [n EXCEPT !.messages = Append(@, text)]

\* Vec::dedup_by on the texts: of consecutive equal texts the first is kept
RECURSIVE dedup(_)
dedup(q) ==
    IF Len(q) < 2 THEN q
    ELSE IF q[1] = q[2] THEN dedup(Tail(q)) ELSE <<q[1]>> \o dedup(Tail(q))

\* the messages at the positions `kept`, in their order
RECURSIVE retain(_, _, _)
retain(q, kept, i) ==
    IF i > Len(q) THEN <<>>
    ELSE (IF i \in kept THEN <<q[i]>> ELSE <<>>) \o retain(q, kept, i + 1)

\* fn render_messages(&mut self, s): retain reads the clock once for every
\* message and keeps those younger than 3 s, the positions `kept`; then
\* repeated texts are merged
render_messages(n, kept) ==
    [n EXCEPT !.messages = dedup(retain(@, kept, 1))]

\* Nes::start_replay: recording starts
start_replay(n) == [n EXCEPT !.replay = [mode |-> "Recording", buffer |-> <<>>]]

\* Nes::stop_replay: the replay is over
stop_replay(n) == [n EXCEPT !.replay.mode = "Off", !.replay.buffer = <<>>]

\* fn handle_feature(&mut self, s, feature, pressed, repeat),
\* for Feature::ToggleGameplayRecording
handle_feature(n, feature, pressed, repeat) ==
    IF feature = "ToggleGameplayRecording" /\ pressed
    THEN IF n.replay.mode = "Off" THEN start_replay(n) ELSE stop_replay(n)
    ELSE n

\* self.control_deck.reset(kind)
control_deck_reset(n, kind) == [n EXCEPT !.reset_kind = kind]

\* Nes::toggle_pause
toggle_pause(n) ==
    [n EXCEPT !.mode = IF n.mode = "Playing" THEN "Paused" ELSE "Playing"]

\* a handle_nes_state whose HardReset resets the control deck with Kind::Soft
handle_nes_state_AlwaysSoft(n, state) ==
    IF n.replay.mode = "Recording"
    THEN [nes |-> n, handled |-> FALSE]
    ELSE [nes |->
            CASE state = "TogglePause" -> toggle_pause(n)
              [] state = "SoftReset" ->
                    LET r == add_message(control_deck_reset([n EXCEPT !.error = "None"],
                                                            "Soft"), "Reset")
                    IN IF r.debugger /\ r.mode # "Paused"
                       THEN [r EXCEPT !.mode = "Paused"] ELSE r
              [] state = "HardReset" ->
                    LET r == add_message(control_deck_reset([n EXCEPT !.error = "None"],
                                                            "Soft"), "Power Cycled")
                    IN IF r.debugger THEN [r EXCEPT !.mode = "Paused"] ELSE r,
          handled |-> TRUE]

\* fn handle_nes_state(&mut self, s, state: NesState) -> NesResult<bool>,
\* for TogglePause, SoftReset and HardReset
handle_nes_state(n, state) ==
    IF n.replay.mode = "Recording"
    THEN [nes |-> n, handled |-> FALSE]
    ELSE [nes |->
            CASE state = "TogglePause" -> toggle_pause(n)
              [] state = "SoftReset" ->
                    LET r == add_message(control_deck_reset([n EXCEPT !.error = "None"],
                                                            "Soft"), "Reset")
                    IN IF r.debugger /\ r.mode # "Paused"
                       THEN [r EXCEPT !.mode = "Paused"] ELSE r
              [] state = "HardReset" ->
                    LET r == add_message(control_deck_reset([n EXCEPT !.error = "None"],
                                                            "Hard"), "Power Cycled")
                    IN IF r.debugger THEN [r EXCEPT !.mode = "Paused"] ELSE r,
          handled |-> TRUE]

\* const fn action_event(&self, slot, action, pressed, repeat) -> ActionEvent
action_event(n, slot, action, pressed, repeat) ==
    [frame |-> n.frame, slot |-> slot, action |-> action,
     pressed |-> pressed, repeat |-> repeat]

\* fn handle_action(&mut self, s, slot, action, pressed, repeat) -> PixResult<bool>
\* for the feature, the Nes state and the joypad actions
handle_action(n, slot, action, pressed, repeat) ==
    LET r == CASE action.kind = "Feature" ->
                     [nes |-> handle_feature(n, action.feature, pressed, repeat),
                      handled |-> TRUE]
               [] action.kind = "Nes" /\ pressed -> handle_nes_state(n, action.state)
               [] action.kind = "Joypad" ->
                     handle_joypad_pressed(n, slot, action.button, pressed)
               [] action.kind = "ZeroAxis" ->
                     LET r1 == handle_joypad_pressed(n, slot, action.buttons[1], pressed)
                     IN IF r1.handled
                        THEN r1
                        ELSE handle_joypad_pressed(r1.nes, slot, action.buttons[2], pressed)
               [] OTHER -> [nes |-> n, handled |-> FALSE]
    IN IF r.nes.replay.mode = "Recording"
       THEN [r EXCEPT !.nes.replay.buffer =
                 Append(@, action_event(r.nes, slot, action, pressed, repeat))]
       ELSE r

(***************************************************************************)
(* nes/event.rs: replay                                                    *)
(***************************************************************************)
Last(q) == q[Len(q)]
Front(q) == SubSeq(q, 1, Len(q) - 1)

\* the `while let Some(action_event) = self.replay.buffer.last()` loop of
\* replay_action; done: the events given to handle_action so far
RECURSIVE replay_loop(_, _, _)
replay_loop(n, cur, done) ==
    IF n.replay.buffer = <<>>
    THEN [nes |-> n, applied |-> done]
    ELSE LET ev == Last(n.replay.buffer)
             popped == [n EXCEPT !.replay.buffer = Front(@)]
         IN CASE ev.frame = cur ->
                    replay_loop(
                        handle_action(popped, ev.slot, ev.action, ev.pressed, ev.repeat).nes,
                        cur, Append(done, ev))
              [] ev.frame < cur -> replay_loop(popped, cur, done)
              [] OTHER -> [nes |-> n, applied |-> done]

\* fn replay_action(&mut self, s) -> NesResult<()>
replay_action(n) ==
    LET r == replay_loop(n, n.frame, <<>>)
    IN IF r.nes.replay.buffer = <<>>
       THEN [r EXCEPT !.nes = stop_replay(r.nes)]
       ELSE r

NoJoypads == [s \in Slots |-> {}]

\* the Nes before any input
NewNes ==
    [mode |-> "Playing",
     error |-> "None",
     concurrent_dpad |-> FALSE,
     replay |-> [mode |-> "Off", buffer |-> <<>>],
     frame |-> 0,
     joypads |-> NoJoypads,
     debugger |-> FALSE,      \* self.debugger.is_some()
     messages |-> <<>>,       \* the texts given to add_message
     reset_kind |-> "None"]   \* the kind given to the last control_deck.reset

InitNes ==
    /\ nes = NewNes
    /\ applied = <<>>
    /\ current_frame = -1

\* the actions bound to the inputs the replay specification records and plays
\* back: a joypad button, the recording toggle and a Nes state action
ReplayInputs ==
    {Joypad("A"), FeatureAction("ToggleGameplayRecording"), NesAction("TogglePause")}

\* the events a replay buffer may hold
ReplayEvents ==
    [frame : 0..MaxFrame, slot : {"One"}, action : ReplayInputs,
     pressed : BOOLEAN, repeat : {FALSE}]

\* live input: handle_input finds the action bound to the input and handles it
Input ==
    /\ \E action \in ReplayInputs, pressed \in BOOLEAN :
          LET r == handle_action(nes, "One", action, pressed, FALSE)
          IN /\ Len(r.nes.replay.buffer) <= MaxBuffer
             /\ nes' = r.nes
    /\ applied' = <<>>
    /\ current_frame' = -1
    /\ UNCHANGED notNes

\* the control deck has clocked a frame
NesClockFrame ==
    /\ nes.frame < MaxFrame
    /\ nes' = [nes EXCEPT !.frame = nes.frame + 1]
    /\ applied' = <<>>
    /\ current_frame' = -1
    /\ UNCHANGED notNes

\* a replay is played back: replay.mode is Playback and replay.buffer holds the
\* events to replay, the next one last.  No buffer is excluded.
LoadReplay ==
    /\ nes.replay.mode = "Off"
    /\ \E n \in 1..MaxLoaded : \E buffer \in [1..n -> ReplayEvents] :
          nes' = [nes EXCEPT !.replay = [mode |-> "Playback", buffer |-> buffer]]
    /\ applied' = <<>>
    /\ current_frame' = -1
    /\ UNCHANGED notNes

\* one call of replay_action, made while a replay is played back
ReplayAction ==
    /\ nes.replay.mode = "Playback"
    /\ LET r == replay_action(nes) IN
          /\ nes' = r.nes
          /\ applied' = r.applied
    /\ current_frame' = nes.frame
    /\ UNCHANGED notNes

(***************************************************************************)
(* The control deck's CPU, as the debugger drives it.  Every instruction   *)
(* takes one address; addresses wrap at MemSize.                           *)
(***************************************************************************)
Addrs == 0..(MemSize - 1)
Instr(op, arg) == [op |-> op, arg |-> arg]
Instrs ==
    {Instr(op, 0) : op \in {"NOP", "RTS", "RTI", "JAM"}}
    \cup {Instr("JSR", t) : t \in Addrs}

NewCpu == [pc |-> 0, stack |-> <<>>, halted |-> FALSE]

\* push on the stack; the oldest entry is overwritten when the stack is full
push(stack, a) ==
    IF Len(stack) < MaxStack THEN Append(stack, a) ELSE Append(Tail(stack), a)

\* cpu.peek_stack_u16(): the return address on top of the stack
peek_stack_u16(c) == IF c.stack = <<>> THEN 0 ELSE Last(c.stack)

\* control_deck.clock_instr(): run one instruction; a JAM halts the CPU, and a
\* halted CPU returns the error again
clock_instr(c, p) ==
    LET i == p[c.pc]
        popped == IF c.stack = <<>> THEN <<>> ELSE Front(c.stack)
    IN IF c.halted \/ i.op = "JAM"
       THEN [cpu |-> [c EXCEPT !.halted = TRUE], res |-> "Err"]
       ELSE [cpu |-> CASE i.op = "NOP" -> [c EXCEPT !.pc = (c.pc + 1) % MemSize]
                       [] i.op = "JSR" -> [c EXCEPT !.pc = i.arg,
                                                    !.stack = push(c.stack, c.pc)]
                       [] i.op = "RTS" -> [c EXCEPT !.pc = (peek_stack_u16(c) + 1) % MemSize,
                                                    !.stack = popped]
                       [] i.op = "RTI" -> [c EXCEPT !.pc = peek_stack_u16(c),
                                                    !.stack = popped],
             res |-> "Ok"]

\* Nes::pause_play
pause_play(n) == [n EXCEPT !.mode = "Paused"]

\* Nes::handle_emulation_error: the error is stored for the status line
handle_emulation_error(n) == [n EXCEPT !.error = "CpuHalt"]

(***************************************************************************)
(* nes/event.rs: debugger stepping                                         *)
(*   dbg.stage: "idle"      no debug_step_* is running                     *)
(*              "over_loop" debug_step_over, at its `while`                *)
(*              "out_loop"  debug_step_out, at its `while`                 *)
(*              "out_last"  debug_step_out, after its `while`              *)
(*   dbg.erred: a clock_instr of the running (or last) step returned Err   *)
(*   dbg.after_err: its calls of clock_instr after one returned Err        *)
(***************************************************************************)
\* fn next_instr(&mut self) -> Instr
next_instr(c, p) == p[c.pc]

NewDbg == [stage |-> "idle", op |-> "None", instr |-> "NOP", rti_addr |-> 0,
           erred |-> FALSE, after_err |-> 0]

\* one `if let Err(err) = self.control_deck.clock_instr() { handle_emulation_error }`
\* made by a debug step: the new cpu, nes and dbg
step_clock(n, c, p, d) ==
    LET r == clock_instr(c, p)
    IN [cpu |-> r.cpu,
        nes |-> IF r.res = "Err" THEN handle_emulation_error(n) ELSE n,
        dbg |-> [d EXCEPT !.erred = d.erred \/ r.res = "Err",
                          !.after_err = IF d.erred THEN d.after_err + 1 ELSE d.after_err],
        res |-> r.res]

InitDebug ==
    /\ prog = [a \in Addrs |-> Instr("NOP", 0)]
    /\ cpu = NewCpu
    /\ dbg = NewDbg

\* control_deck.load_rom: a program is loaded and the CPU starts at address 0
LoadProgram ==
    /\ dbg.stage = "idle"
    /\ prog' \in [Addrs -> Instrs]
    /\ cpu' = NewCpu
    /\ dbg' = NewDbg
    /\ nes' = [nes EXCEPT !.error = "None", !.mode = "Playing"]
    /\ UNCHANGED notDebug

\* fn debug_step_into(&mut self, s)
DebugStepInto ==
    /\ dbg.stage = "idle"
    /\ LET r == step_clock(pause_play(nes), cpu, prog,
                           [NewDbg EXCEPT !.op = "step_into"])
       IN cpu' = r.cpu /\ nes' = r.nes /\ dbg' = r.dbg
    /\ UNCHANGED <<prog, notDebug>>

\* a debug_step_over whose loop runs to the address on the stack, without the
\* wrapping_add(1)
DebugStepOverBegin_NoPlusOne ==
    /\ dbg.stage = "idle"
    /\ LET instr == next_instr(cpu, prog)
           r == step_clock(pause_play(nes), cpu, prog,
                           [NewDbg EXCEPT !.op = "step_over", !.instr = instr.op])
       IN /\ cpu' = r.cpu
          /\ nes' = r.nes
          /\ dbg' = IF instr.op = "JSR"
                    THEN [r.dbg EXCEPT !.stage = "over_loop",
                                       !.rti_addr = peek_stack_u16(r.cpu)]
                    ELSE r.dbg
    /\ UNCHANGED <<prog, notDebug>>

\* debug_step_over, lines 699-705: the first instruction; the loop is entered
\* when that instruction was a JSR
DebugStepOverBegin ==
    /\ dbg.stage = "idle"
    /\ LET instr == next_instr(cpu, prog)
           r == step_clock(pause_play(nes), cpu, prog,
                           [NewDbg EXCEPT !.op = "step_over", !.instr = instr.op])
       IN /\ cpu' = r.cpu
          /\ nes' = r.nes
          /\ dbg' = IF instr.op = "JSR"
                    THEN [r.dbg EXCEPT !.stage = "over_loop",
                                       !.rti_addr = (peek_stack_u16(r.cpu) + 1) % MemSize]
                    ELSE r.dbg
    /\ UNCHANGED <<prog, notDebug>>

\* debug_step_over, lines 706-711: one test of the `while`, and its body
DebugStepOverLoop ==
    /\ dbg.stage = "over_loop"
    /\ IF cpu.pc # dbg.rti_addr
       THEN LET r == step_clock(nes, cpu, prog, dbg)
            IN /\ cpu' = r.cpu
               /\ nes' = r.nes
               /\ dbg' = IF r.res = "Err" THEN [r.dbg EXCEPT !.stage = "idle"] ELSE r.dbg
       ELSE /\ dbg' = [dbg EXCEPT !.stage = "idle"]
            /\ UNCHANGED <<cpu, nes>>
    /\ UNCHANGED <<prog, notDebug>>

\* debug_step_out, line 717
DebugStepOutBegin ==
    /\ dbg.stage = "idle"
    /\ dbg' = [NewDbg EXCEPT !.op = "step_out", !.stage = "out_loop",
                             !.instr = next_instr(cpu, prog).op]
    /\ UNCHANGED <<cpu, nes, prog, notDebug>>

\* debug_step_out, lines 718-724: one test of the `while`, and its body
DebugStepOutLoop ==
    /\ dbg.stage = "out_loop"
    /\ IF dbg.instr \notin {"RTS", "RTI"}
       THEN LET r == step_clock(nes, cpu, prog, dbg)
            IN /\ cpu' = r.cpu
               /\ nes' = r.nes
               /\ dbg' = IF r.res = "Err"
                         THEN [r.dbg EXCEPT !.stage = "out_last"]
                         ELSE [r.dbg EXCEPT !.instr = next_instr(r.cpu, prog).op]
       ELSE /\ dbg' = [dbg EXCEPT !.stage = "out_last"]
            /\ UNCHANGED <<cpu, nes>>
    /\ UNCHANGED <<prog, notDebug>>

\* debug_step_out, lines 725-729: the instruction after the loop
DebugStepOutLast ==
    /\ dbg.stage = "out_last"
    /\ LET r == step_clock(nes, cpu, prog, dbg)
       IN cpu' = r.cpu /\ nes' = r.nes /\ dbg' = [r.dbg EXCEPT !.stage = "idle"]
    /\ UNCHANGED <<prog, notDebug>>

(***************************************************************************)
(* audio/window_sinc.rs: arithmetic.                                       *)
(* An f32 x is modelled by the integer floor(x * Scale), Scale = 2^26      *)
(* (about 1.5e-8), products and quotients being computed in halves so that *)
(* no intermediate value leaves 32 bits.  Angles are kept as exact         *)
(* fractions of a turn and reduced to the first octant before the sine and *)
(* cosine series are summed.                                               *)
(***************************************************************************)
Scale == 2^26
HalfScale == 2^13
Pi == 210828714                       \* std::f32::consts::PI, times Scale

\* floor(a * b / Scale)
Mul(a, b) ==
    LET a1 == a \div HalfScale
        a0 == a % HalfScale
        b1 == b \div HalfScale
        b0 == b % HalfScale
    IN a1 * b1 + ((a1 * b0 + a0 * b1 + ((a0 * b0) \div HalfScale)) \div HalfScale)

\* floor(a / j) for an integer j # 0
DivInt(a, j) == IF j > 0 THEN a \div j ELSE (-a) \div (-j)

\* floor(a * 2^k / b) given acc = a \div b and r = a % b, for 0 <= r < b
RECURSIVE DivBits(_, _, _, _)
DivBits(r, b, k, acc) ==
    IF k = 0 THEN acc
    ELSE IF 2 * r >= b
         THEN DivBits(2 * r - b, b, k - 1, 2 * acc + 1)
         ELSE DivBits(2 * r, b, k - 1, 2 * acc)

RECURSIVE Pow2(_)
Pow2(k) == IF k = 0 THEN 1 ELSE 2 * Pow2(k - 1)

\* the first 25 bits of a / b: q, r and e with a / b = (q + r / b) * 2^e and
\* 2^24 <= q < 2^25, from a / b = (q + r / b) * 2^e with q < 2^25
RECURSIVE F32Norm(_, _, _, _)
F32Norm(q, r, b, e) ==
    IF q >= Pow2(24) THEN [q |-> q, r |-> r, e |-> e]
    ELSE IF 2 * r >= b
         THEN F32Norm(2 * q + 1, 2 * r - b, b, e - 1)
         ELSE F32Norm(2 * q, 2 * r, b, e - 1)

\* the f32 quotient a / b of two integers 0 < a < 2^25 and 0 < b < 2^30, rounded
\* to nearest, ties to even: the value man * 2^exp with 2^23 <= man < 2^24
F32Div(a, b) ==
    LET n == F32Norm(a \div b, a % b, b, 0)
        man == n.q \div 2
        up == n.q % 2 = 1 /\ (n.r # 0 \/ man % 2 = 1)
        rounded == IF up THEN man + 1 ELSE man
    IN IF rounded = Pow2(24)
       THEN [man |-> Pow2(23), exp |-> n.e + 2]
       ELSE [man |-> rounded, exp |-> n.e + 1]

\* the f32 quotient 4.0 / x of an f32 x > 0: 1 / x.man, scaled by a power of two
F32FourOver(x) ==
    LET q == F32Div(1, x.man) IN [q EXCEPT !.exp = @ + 2 - x.exp]

\* `x as usize` for an f32 x > 0 below 2^31: the fraction is cut off
F32AsUsize(x) ==
    IF x.exp >= 0 THEN x.man * Pow2(x.exp)
    ELSE IF -x.exp >= 24 THEN 0
    ELSE x.man \div Pow2(-x.exp)

\* x <= 0.5, for an f32 x > 0
F32LeHalf(x) == x.exp < -24 \/ (x.exp = -24 /\ x.man = Pow2(23))

\* 1.0 / x, for x # 0
Recip(x) ==
    IF x > 0
    THEN DivBits(Scale % x, x, 26, Scale \div x)
    ELSE -DivBits(Scale % (-x), -x, 26, Scale \div (-x))

\* the angle 2 pi num / den, for 0 <= num <= den
Angle(num, den) ==
    ((2 * Pi) \div den) * num + ((((2 * Pi) % den) * num) \div den)

\* cos x and sin x for 0 <= x <= pi/4, by their series
Cos0(x) ==
    LET x2 == Mul(x, x)
    IN Scale - Mul(x2, (Scale \div 2) - Mul(x2, (Scale \div 24) - Mul(x2, (Scale \div 720)
             - Mul(x2, (Scale \div 40320) - Mul(x2, Scale \div 3628800)))))
Sin0(x) ==
    LET x2 == Mul(x, x)
    IN Mul(x, Scale - Mul(x2, (Scale \div 6) - Mul(x2, (Scale \div 120)
             - Mul(x2, (Scale \div 5040) - Mul(x2, Scale \div 362880)))))

\* cos / sin of 2 pi num / den for 0 <= num / den <= 1/4
CosQuadrant(num, den) ==
    IF 8 * num > den THEN Sin0(Angle(den - 4 * num, 4 * den)) ELSE Cos0(Angle(num, den))
SinQuadrant(num, den) ==
    IF 8 * num > den THEN Cos0(Angle(den - 4 * num, 4 * den)) ELSE Sin0(Angle(num, den))

\* cos(2 pi k / d) and sin(2 pi k / d), for any integer k and d > 0
CosTurn(k, d) ==
    LET k1 == k % d
        k2 == IF 2 * k1 > d THEN d - k1 ELSE k1
    IN IF 4 * k2 > d THEN -CosQuadrant(d - 2 * k2, 2 * d) ELSE CosQuadrant(k2, d)
SinTurn(k, d) ==
    LET k1 == k % d
        k2 == IF 2 * k1 > d THEN d - k1 ELSE k1
        v == IF 4 * k2 > d THEN SinQuadrant(d - 2 * k2, 2 * d) ELSE SinQuadrant(k2, d)
    IN IF 2 * k1 > d THEN -v ELSE v

\* the f32 values a tap can take: a number, an infinity (v: its sign), or NaN
Num(x) == [k |-> "num", v |-> x]
Inf(sign) == [k |-> "inf", v |-> sign]
NaN == [k |-> "nan", v |-> 0]

\* -x, x + y and h * (1.0 / 0.0)
FNeg(x) == IF x.k = "nan" THEN NaN ELSE [x EXCEPT !.v = -x.v]
FAdd(x, y) ==
    CASE x.k = "nan" \/ y.k = "nan" -> NaN
      [] x.k = "inf" /\ y.k = "inf" -> IF x.v = y.v THEN x ELSE NaN
      [] x.k = "inf" -> x
      [] y.k = "inf" -> y
      [] OTHER -> Num(x.v + y.v)
TimesInf(h) == IF h = 0 THEN NaN ELSE IF h > 0 THEN Inf(1) ELSE Inf(-1)

RECURSIVE SumInts(_)
SumInts(q) == IF q = <<>> THEN 0 ELSE SumInts(Front(q)) + Last(q)

\* taps.iter().sum::<f32>()
RECURSIVE FSum(_)
FSum(q) == IF q = <<>> THEN Num(0) ELSE FAdd(FSum(Front(q)), Last(q))

(***************************************************************************)
(* audio/window_sinc.rs: the filter                                        *)
(***************************************************************************)
SampleRate == 64        \* the sample_rate the filters are constructed with

\* a blackman_window that keeps the length m + 1 for an odd m
blackman_window_NoSymmetry(m) ==
    [i \in 1..(m + 1) |->
        (((21 * Scale) \div 50) - (CosTurn(i - 1, m) \div 2))
          + Mul((4 * Scale) \div 5, CosTurn(2 * (i - 1), m))]

\* fn blackman_window(m: usize) -> Vec<f32>; h[i] is at index i + 1
blackman_window(m) ==
    LET n == IF m % 2 = 0 THEN m + 1 ELSE m
    IN [i \in 1..n |->
          (((21 * Scale) \div 50) - (CosTurn(i - 1, m) \div 2))
            + Mul((4 * Scale) \div 5, CosTurn(2 * (i - 1), m))]

\* "Apply window sinc filter": h[i] *= if i == 0 { p } else { (p * i).sin() / i }
\* with i counted from the latency and p = 2 pi fc, fc = cutoff / sample_rate
apply_sinc(h, cutoff, sample_rate, latency) ==
    [i \in 1..Len(h) |->
        LET j == (i - 1) - latency
        IN Mul(h[i], IF j = 0
                     THEN Angle(cutoff, sample_rate)
                     ELSE DivInt(SinTurn(cutoff * j, sample_rate), j))]

\* "Normalize": sum_inv = 1.0 / sum; every h *= sum_inv
normalize(h) ==
    LET sum == SumInts(h)
    IN IF sum = 0
       THEN [i \in 1..Len(h) |-> TimesInf(h[i])]
       ELSE [i \in 1..Len(h) |-> Num(Mul(h[i], Recip(sum)))]

NoFilter(state) ==
    [state |-> state, fc |-> <<0, 1>>, bw |-> <<0, 1>>, m |-> 0, latency |-> 0,
     taps |-> <<>>, inversions |-> 0]

\* new panicked: no filter is returned; fc and bw are the locals it had computed
Aborted(state, sample_rate, cutoff, bandwidth) ==
    [NoFilter(state) EXCEPT !.fc = <<cutoff, sample_rate>>,
                            !.bw = <<bandwidth, sample_rate>>]

\* pub fn new(sample_rate: f32, cutoff: f32, bandwidth: f32) -> Self,
\* for a sample_rate > 0; fc and bw are kept as fractions, and as the f32
\* quotients where they are compared with 0.5 and where m is computed
WindowSinc_new(sample_rate, cutoff, bandwidth) ==
    IF ~(0 <= cutoff /\ (cutoff = 0 \/ F32LeHalf(F32Div(cutoff, sample_rate))))
    THEN Aborted("assert_cutoff", sample_rate, cutoff, bandwidth)
    ELSE IF ~(0 <= bandwidth
              /\ (bandwidth = 0 \/ F32LeHalf(F32Div(bandwidth, sample_rate))))
    THEN Aborted("assert_bandwidth", sample_rate, cutoff, bandwidth)
    ELSE IF bandwidth = 0
    THEN \* m = usize::MAX: the window cannot be allocated
         Aborted("capacity_overflow", sample_rate, cutoff, bandwidth)
    ELSE LET m == F32AsUsize(F32FourOver(F32Div(bandwidth, sample_rate)))
             latency == m \div 2
             h == apply_sinc(blackman_window(m), cutoff, sample_rate, latency)
         IN [state |-> "built",
             fc |-> <<cutoff, sample_rate>>,
             bw |-> <<bandwidth, sample_rate>>,
             m |-> m,
             latency |-> latency,
             taps |-> normalize(h),
             inversions |-> 0]

\* pub fn len(&self) -> usize
len(f) == Len(f.taps)

\* a spectral_invert that negates the odd taps instead of the even ones
spectral_invert_OddNegated(f) ==
    LET flipped == [i \in 1..Len(f.taps) |->
                       IF (i - 1) % 2 = 1 THEN FNeg(f.taps[i]) ELSE f.taps[i]]
    IN [f EXCEPT !.taps = [flipped EXCEPT ![f.latency + 1] = FAdd(@, Num(Scale))],
                 !.inversions = @ + 1]

\* pub fn spectral_invert(&mut self): i starts at 1.0 and is negated before
\* every tap is multiplied by it; then 1.0 is added at the latency
spectral_invert(f) ==
    LET flipped == [i \in 1..Len(f.taps) |->
                       IF (i - 1) % 2 = 0 THEN FNeg(f.taps[i]) ELSE f.taps[i]]
    IN [f EXCEPT !.taps = [flipped EXCEPT ![f.latency + 1] = FAdd(@, Num(Scale))],
                 !.inversions = @ + 1]

InitSinc == ws = NoFilter("none")

\* the cutoffs and bandwidths tried: all that pass the assertions and give at
\* most MaxTaps taps, and those next to the accepted range
Cutoffs == -1..((SampleRate \div 2) + 1)
Bandwidths ==
    {-1, 0} \cup {b \in 1..((SampleRate \div 2) + 1) : (4 * SampleRate) \div b < MaxTaps}

\* WindowSinc::new(sample_rate, cutoff, bandwidth)
New ==
    /\ ws.state = "none"
    /\ \E cutoff \in Cutoffs, bandwidth \in Bandwidths :
          ws' = WindowSinc_new(SampleRate, cutoff, bandwidth)
    /\ UNCHANGED notSinc

\* filter.spectral_invert()
Invert ==
    /\ ws.state = "built"
    /\ ws.inversions < MaxInversions
    /\ ws' = spectral_invert(ws)
    /\ UNCHANGED notSinc

(***************************************************************************)
(* nes/event.rs: controller and joypad input, one handler call per step    *)
(***************************************************************************)
Modes == {"Playing", "Paused"}

\* the buttons given to handle_joypad_pressed for each slot
ButtonsOf(slot) ==
    IF slot = "One"
    THEN {"Left", "Right", "Up", "Down", "A", "B", "TurboA", "TurboB"}
    ELSE {"Left", "Right"}

\* fn get_controller_slot(&self, controller_id) -> Option<Slot>
get_controller_slot(controller_id) ==
    CASE controller_id = 0 -> "One"
      [] controller_id = 1 -> "Two"
      [] OTHER -> "None"
ControllerIds == 0..2

\* the axes moved on the controller of each slot
AxesOf(slot) == IF slot = "One" THEN {"LeftX", "LeftY"} ELSE {"LeftX"}

ZeroAxis(b1, b2) == [kind |-> "ZeroAxis", buttons |-> <<b1, b2>>]

\* config.input_map.get(&Input::Axis((slot, axis, direction)))
input_map(axis, direction) ==
    CASE axis = "LeftX" /\ direction = "Negative" -> Joypad("Left")
      [] axis = "LeftX" /\ direction = "Positive" -> Joypad("Right")
      [] axis = "LeftX" /\ direction = "None" -> ZeroAxis("Left", "Right")
      [] axis = "LeftY" /\ direction = "Negative" -> Joypad("Up")
      [] axis = "LeftY" /\ direction = "Positive" -> Joypad("Down")
      [] axis = "LeftY" /\ direction = "None" -> ZeroAxis("Up", "Down")

\* the AxisDirection of handle_controller_axis: value.cmp(&0)
axis_direction(value) ==
    IF value > 0 THEN "Positive" ELSE IF value < 0 THEN "Negative" ELSE "None"

\* pub(crate) fn handle_controller_axis(&mut self, s, controller_id, axis, value),
\* with handle_input: the action bound to the input is handled with pressed = true
handle_controller_axis(n, controller_id, axis, value) ==
    LET slot == get_controller_slot(controller_id)
    IN IF slot = "None"
       THEN [nes |-> n, handled |-> FALSE]
       ELSE handle_action(n, slot, input_map(axis, axis_direction(value)), TRUE, FALSE)

NoCall == [op |-> "none", slot |-> "None", button |-> "None", pressed |-> FALSE,
           handled |-> FALSE, released |-> {}]

InitCall == call = NoCall

\* handle_action(s, slot, Action::Joypad(button), pressed, false)
JoypadPressed ==
    /\ \E slot \in Slots, pressed \in BOOLEAN :
          \E button \in ButtonsOf(slot) :
             LET r == handle_action(nes, slot, Joypad(button), pressed, FALSE)
             IN /\ nes' = r.nes
                /\ call' = [op |-> "joypad", slot |-> slot, button |-> button,
                            pressed |-> pressed, handled |-> r.handled,
                            released |-> nes.joypads[slot] \ r.nes.joypads[slot]]
    /\ UNCHANGED notJoypad

\* handle_controller_axis(s, controller_id, axis, value)
ControllerAxis ==
    /\ \E controller_id \in ControllerIds, value \in {-1, 0, 1} :
          LET slot == get_controller_slot(controller_id) IN
          \E axis \in (IF slot = "None" THEN {"LeftX"} ELSE AxesOf(slot)) :
             LET r == handle_controller_axis(nes, controller_id, axis, value)
             IN /\ nes' = r.nes
                /\ call' = [op |-> "axis", slot |-> slot,
                            button |-> <<axis, axis_direction(value)>>,
                            pressed |-> TRUE, handled |-> r.handled,
                            released |-> IF slot = "None" THEN {}
                                         ELSE nes.joypads[slot] \ r.nes.joypads[slot]]
    /\ UNCHANGED notJoypad

\* the emulation is paused or resumed
SetMode ==
    /\ \E mode \in Modes \ {nes.mode} : nes' = [nes EXCEPT !.mode = mode]
    /\ call' = [NoCall EXCEPT !.op = "mode"]
    /\ UNCHANGED notJoypad

\* config.concurrent_dpad is changed
SetConcurrentDpad ==
    /\ nes' = [nes EXCEPT !.concurrent_dpad = ~@]
    /\ call' = [NoCall EXCEPT !.op = "config"]
    /\ UNCHANGED notJoypad

(***************************************************************************)
(* nes/event.rs: the Nes state actions, one handler call per step          *)
(***************************************************************************)
NesStates == {"TogglePause", "SoftReset", "HardReset"}

\* handle_action(s, Slot::One, Action::Nes(state), pressed, false)
NesStateAction ==
    /\ \E state \in NesStates, pressed \in BOOLEAN :
          LET r == handle_action(nes, "One", NesAction(state), pressed, FALSE)
          IN /\ Len(r.nes.messages) <= MaxMessages
             /\ Len(r.nes.replay.buffer) <= MaxBuffer
             /\ nes' = r.nes
             /\ call' = [NoCall EXCEPT !.op = "nes_state", !.slot = "One",
                                       !.button = state, !.pressed = pressed,
                                       !.handled = r.handled]
    /\ UNCHANGED notJoypad

\* render_messages(s), called for every frame drawn.  The clock is read anew
\* for every message, so a message may be found expired while an older one,
\* tested earlier, was kept: any of the messages may be the ones kept
RenderMessages ==
    /\ \E kept \in SUBSET (1..Len(nes.messages)) : nes' = render_messages(nes, kept)
    /\ call' = [NoCall EXCEPT !.op = "render"]
    /\ UNCHANGED notJoypad

\* a clock of the control deck returns an error, which is stored
EmulationError ==
    /\ nes.error = "None"
    /\ nes' = handle_emulation_error(nes)
    /\ call' = [NoCall EXCEPT !.op = "error"]
    /\ UNCHANGED notJoypad

\* the debugger is opened or closed
ToggleDebugger ==
    /\ nes' = [nes EXCEPT !.debugger = ~@]
    /\ call' = [NoCall EXCEPT !.op = "debugger"]
    /\ UNCHANGED notJoypad

\* handle_action(s, Slot::One, Action::Feature(ToggleGameplayRecording), pressed, false)
ToggleGameplayRecording ==
    /\ \E pressed \in BOOLEAN :
          LET r == handle_action(nes, "One", FeatureAction("ToggleGameplayRecording"),
                                 pressed, FALSE)
          IN /\ Len(r.nes.replay.buffer) <= MaxBuffer
             /\ nes' = r.nes
             /\ call' = [NoCall EXCEPT !.op = "feature", !.slot = "One",
                                       !.button = "ToggleGameplayRecording",
                                       !.pressed = pressed, !.handled = r.handled]
    /\ UNCHANGED notJoypad

(***************************************************************************)
(* ui.rs: a UiBuilder is configured and built                              *)
(***************************************************************************)
NotBuilt == [called |-> FALSE, from |-> UiBuilder_new, res |-> "None", ui |-> <<>>]

InitBuilder ==
    /\ builder = UiBuilder_new
    /\ built = NotBuilt

Paths == {"None", "roms"}
SaveSlots == 0..MaxSaveSlot
Scales == 1..MaxScale

SetPath ==
    /\ \E path \in Paths, cwd_ok \in BOOLEAN : builder' = set_path(builder, path, cwd_ok)
    /\ UNCHANGED <<built, notBuilder>>
SetDebug ==
    /\ \E debug \in BOOLEAN : builder' = set_debug(builder, debug)
    /\ UNCHANGED <<built, notBuilder>>
SetFullscreen ==
    /\ \E fullscreen \in BOOLEAN : builder' = set_fullscreen(builder, fullscreen)
    /\ UNCHANGED <<built, notBuilder>>
SetSound ==
    /\ \E sound \in BOOLEAN : builder' = set_sound(builder, sound)
    /\ UNCHANGED <<built, notBuilder>>
SetSaveSlot ==
    /\ \E save_slot \in SaveSlots : builder' = set_save_slot(builder, save_slot)
    /\ UNCHANGED <<built, notBuilder>>
SetScale ==
    /\ \E scale \in Scales : builder' = set_scale(builder, scale)
    /\ UNCHANGED <<built, notBuilder>>

\* builder.build()
Build ==
    /\ \E window_ok \in BOOLEAN :
          LET r == UiBuilder_build(builder, window_ok)
          IN built' = [called |-> TRUE, from |-> builder, res |-> r.res, ui |-> r.ui]
    /\ UNCHANGED <<builder, notBuilder>>

(***************************************************************************)
(* Specifications                                                          *)
(***************************************************************************)
Init == InitMapper /\ InitUi /\ InitNes /\ InitDebug /\ InitSinc /\ InitBuilder /\ InitCall

\* mapper.rs
NextMapper == LoadRom
SpecMapper == Init /\ [][NextMapper]_vars

\* ui.rs, driven by the control events
NextUi ==
    \/ RunStart \/ LoopCheck \/ PollBegin \/ HandleEvent(ControlEvents)
    \/ PollEnd \/ ClockFrame \/ RenderAudio \/ PowerOff
SpecUi == Init /\ [][NextUi]_vars

\* ui.rs, driven by the button events
NextTurbo ==
    \/ RunStart \/ LoopCheck \/ PollBegin \/ HandleEvent(TurboEvents)
    \/ PollEnd \/ ClockFrame \/ RenderAudio \/ PowerOff
SpecTurbo == Init /\ [][NextTurbo]_vars

\* nes/event.rs: recording and playing back a replay
NextReplay == Input \/ NesClockFrame \/ LoadReplay \/ ReplayAction
SpecReplay == Init /\ [][NextReplay]_vars

\* nes/event.rs: the debugger steps through a program
NextDebug ==
    \/ LoadProgram \/ DebugStepInto
    \/ DebugStepOverBegin \/ DebugStepOverLoop
    \/ DebugStepOutBegin \/ DebugStepOutLoop \/ DebugStepOutLast
SpecDebug == Init /\ [][NextDebug]_vars

\* audio/window_sinc.rs: a filter is constructed and inverted
NextSinc == New \/ Invert
SpecSinc == Init /\ [][NextSinc]_vars

\* ui.rs: a builder is configured and builds
NextBuilder ==
    SetPath \/ SetDebug \/ SetFullscreen \/ SetSound \/ SetSaveSlot \/ SetScale \/ Build
SpecBuilder == Init /\ [][NextBuilder]_vars

\* nes/event.rs: controller input is handled
NextJoypad == JoypadPressed \/ ControllerAxis \/ SetMode \/ SetConcurrentDpad
SpecJoypad == Init /\ [][NextJoypad]_vars

\* ui.rs, driven by the stick events
NextAxis ==
    \/ RunStart \/ LoopCheck \/ PollBegin \/ HandleEvent(AxisEvents)
    \/ PollEnd \/ ClockFrame \/ RenderAudio \/ PowerOff
SpecAxis == Init /\ [][NextAxis]_vars

\* ui.rs, driven by the events of the controllers
NextPads ==
    \/ RunStart \/ LoopCheck \/ PollBegin \/ HandleEvent(PadEvents)
    \/ PollEnd \/ ClockFrame \/ RenderAudio \/ PowerOff
SpecPads == Init /\ [][NextPads]_vars

\* nes/event.rs: the Nes state actions are handled
NextNesState ==
    \/ NesStateAction \/ RenderMessages \/ EmulationError \/ ToggleDebugger
    \/ SetMode \/ ToggleGameplayRecording
SpecNesState == Init /\ [][NextNesState]_vars

Next == NextMapper \/ NextUi \/ NextTurbo \/ NextReplay \/ NextDebug \/ NextSinc
            \/ NextBuilder \/ NextJoypad \/ NextAxis \/ NextPads
            \/ NextNesState
Spec == Init /\ [][Next]_vars

(***************************************************************************)
(* Claims                                                                  *)
(***************************************************************************)

\* C1: load_rom returns a mapper for exactly the mapper numbers 0..4
\* (0 Nrom, 1 Sxrom, 2 Uxrom, 3 Cnrom, 4 Txrom); every other number gives the
\* error "unsupported mapper number" and no mapper; a cartridge parse error is
\* returned before a mapper is selected.
C1_LoadRomMappers ==
    mapper.status # "None" =>
        /\ (rom.parse = "Err" =>
                mapper.status = "Err" /\ mapper.error = "cartridge" /\ mapper.kind = "None")
        /\ (rom.parse = "Ok" /\ rom.mapper_num \in 0..4 =>
                /\ mapper.status = "Ok"
                /\ mapper.kind = MapperKinds[rom.mapper_num + 1])
        /\ (rom.parse = "Ok" /\ rom.mapper_num \notin 0..4 =>
                /\ mapper.status = "Err"
                /\ mapper.error = "unsupported mapper number"
                /\ mapper.num = rom.mapper_num
                /\ mapper.kind = "None")

\* C1 witness: load_rom has refused mapper number 5, the first unsupported one
C1_Witness ==
    rom.parse = "Ok" /\ rom.mapper_num = 5 /\ mapper.status = "Err"

Pads == {"gamepad1", "gamepad2"}

\* C2: turbo_clock stays in 0..5 and advances by 1 modulo 6 with every emulated
\* frame and by nothing else; every poll sets the A / B button of a held turbo
\* button to pressed exactly when turbo_clock < 3; at 100% speed one frame is
\* emulated per poll, so that a turbo button left alone by other input is
\* pressed in the frames with turbo_clock 0, 1, 2 and released in those with 3, 4, 5.
C2_TurboCadence ==
    /\ [](ui.turbo_clock \in 0..5)
    /\ [](pc = "frames" /\ frames_left = 1 /\ ui.speed = DEFAULT_SPEED
             /\ ui.input.gamepad2.turbo_b
          => ui.input.gamepad2.b = (ui.turbo_clock < 3))
    /\ [][/\ (pc = "frames" /\ frames_left' = frames_left - 1)
                => ui'.turbo_clock = (ui.turbo_clock + 1) % 6
          /\ (ui'.turbo_clock # ui.turbo_clock)
                => (pc = "frames" /\ frames_left' = frames_left - 1)
          /\ (pc = "poll" /\ pc' = "events")
                => \A g \in Pads :
                      /\ ui'.input[g].turbo_a => ui'.input[g].a = (ui.turbo_clock < 3)
                      /\ ui'.input[g].turbo_b => ui'.input[g].b = (ui.turbo_clock < 3)
          /\ (pc = "events" /\ pc' = "frames" /\ ui.speed = DEFAULT_SPEED)
                => frames_left' = 1
         ]_vars

\* C2 witness: at 100% speed a frame is about to be emulated in the released
\* half of the cycle, with the turbo B button of gamepad 2 held
C2_Witness ==
    /\ pc = "frames" /\ frames_left = 1 /\ ui.speed = DEFAULT_SPEED
    /\ ui.turbo_clock = 3
    /\ ui.input.gamepad2.turbo_b /\ ~ui.input.gamepad2.b

\* C3: with LCtrl held, a key-down of number key N sets save_slot to N, for
\* every N in 1..4.
C3_SaveSlotKeyN ==
    [][\A k \in NumKeys :
          (pc = "events" /\ pc' = "events" /\ ui.lctrl
              /\ ui' = handle_keydown(ui, k, turbo, TRUE).ui)
          => ui'.save_slot = KeyNumber(k)]_vars

\* C5: whenever Ui::run returns after its start-up (from event polling or from
\* the end of the loop), console.power_off has been called exactly once.
C5_PowerOffBeforeReturn ==
    pc \in {"returned_ok", "returned_err"} => ui.console.power_off_calls = 1

\* C6, as claimed: the audio sample buffer is empty whenever a frame is about
\* to be clocked (it was cleared after the frame before).
C6_ClearedBeforeEveryFrame ==
    (pc = "frames" /\ frames_left > 0) => ui.console.audio = 0

\* C6, amended: the audio sample buffer is cleared once per unpaused iteration
\* of the run loop, after all the frames of the iteration (1, or 2 at speed 200)
\* are clocked and before a frame of the next iteration is: outside the frame
\* loop it is empty, inside it holds the frames clocked in this iteration, and
\* the drain clears it, having enqueued the samples exactly when sound is enabled.
C6_ClearedEveryIteration ==
    /\ [](pc # "frames" => ui.console.audio = 0)
    /\ [](pc = "frames" =>
            /\ ui.console.audio + frames_left = frames_to_run(ui.speed)
            /\ ui.console.audio \in 0..2)
    /\ [][(pc = "frames" /\ pc' = "loop") =>
            /\ ui'.console.audio = 0
            /\ ui'.window.enqueued =
                 IF ui.sound_enabled THEN ui.console.audio ELSE ui.window.enqueued
         ]_vars

\* C6 witness: two frames were clocked in one iteration at speed 200 with the
\* sound disabled, and their samples wait to be cleared
C6_Witness ==
    /\ pc = "frames" /\ frames_left = 0
    /\ ui.console.audio = 2 /\ ~ui.sound_enabled

\* C4: a call of replay_action gives an event to handle_action only when its
\* frame is the current frame of the control deck; the events of later frames
\* are left in the buffer, unapplied and in their order, and no event of an
\* earlier frame is left in the buffer.
C4_ReplayAtRecordedFrame ==
    [][current_frame' >= 0
       => /\ \A i \in 1..Len(applied') : applied'[i].frame = nes.frame
          /\ SelectSeq(nes'.replay.buffer, LAMBDA e : e.frame > nes.frame)
                = SelectSeq(nes.replay.buffer, LAMBDA e : e.frame > nes.frame)
          /\ SelectSeq(nes'.replay.buffer, LAMBDA e : e.frame < nes.frame) = <<>>
      ]_vars

\* C10: when clock_instr returns an error inside step-into, step-over or
\* step-out, the error is passed to handle_emulation_error and that step
\* clocks no further instruction.
C10_ErrorStopsStep ==
    /\ (dbg.erred => nes.error = "CpuHalt")
    /\ dbg.after_err = 0

\* C7, as stated: every filter new builds has m + 1 taps, where
\* m = floor(4 / (bandwidth / sample_rate)), latency = m / 2 (integer division),
\* and len() returns that length.
C7_LengthMPlusOne ==
    ws.state = "built" =>
        /\ ws.m = (4 * ws.bw[2]) \div ws.bw[1]
        /\ Len(ws.taps) = ws.m + 1
        /\ ws.latency = ws.m \div 2
        /\ len(ws) = ws.m + 1

\* C7, amended: every filter new builds has m + 1 taps when m is even and m
\* taps when m is odd, so always an odd number of taps, where
\* m = floor(4 / (bandwidth / sample_rate)); latency = m / 2 (integer division)
\* and len() returns the number of taps.
C7_LengthForcedOdd ==
    ws.state = "built" =>
        /\ ws.m = (4 * ws.bw[2]) \div ws.bw[1]
        /\ Len(ws.taps) = IF ws.m % 2 = 0 THEN ws.m + 1 ELSE ws.m
        /\ Len(ws.taps) % 2 = 1
        /\ ws.latency = ws.m \div 2
        /\ len(ws) = Len(ws.taps)

\* C7 witness: a filter built with an odd m (bandwidth 28 of sample rate 64:
\* m = 9) that has 9 taps and latency 4
C7_Witness ==
    /\ ws.state = "built"
    /\ ws.bw = <<28, SampleRate>>
    /\ ws.m = 9 /\ len(ws) = 9 /\ ws.latency = 4

AbsInt(x) == IF x < 0 THEN -x ELSE x

\* x is a number within 1e-6 of 1.0
NearOne(x) == x.k = "num" /\ AbsInt(x.v - Scale) <= Scale \div 1000000

\* C8, as stated: the taps of a filter sum to 1.0 within 1e-6 after
\* construction, and again after spectral_invert.
C8_SumIsOne ==
    ws.state = "built" => NearOne(FSum(ws.taps))

\* C9: spectral_invert multiplies the tap at 0-based index k by -1 when k is
\* even and leaves it unchanged when k is odd, then adds 1 to the tap at index
\* latency; the number of taps, latency, m, fc and bw are unchanged.
C9_InvertAlternating ==
    [][(ws.state = "built" /\ ws'.inversions = ws.inversions + 1) =>
          /\ Len(ws'.taps) = Len(ws.taps)
          /\ \A k \in 0..(Len(ws.taps) - 1) :
                LET flipped == IF k % 2 = 0 THEN FNeg(ws.taps[k + 1]) ELSE ws.taps[k + 1]
                IN ws'.taps[k + 1] =
                      IF k = ws.latency THEN FAdd(flipped, Num(Scale)) ELSE flipped
          /\ ws'.latency = ws.latency
          /\ ws'.m = ws.m
          /\ ws'.fc = ws.fc
          /\ ws'.bw = ws.bw
      ]_vars

\* C9 witness: a 9-tap filter with numeric, non-zero taps around its centre was
\* inverted once
C9_Witness ==
    /\ ws.state = "built" /\ ws.inversions = 1
    /\ Len(ws.taps) = 9
    /\ \A k \in 3..5 : ws.taps[k + 1].k = "num" /\ ws.taps[k + 1].v # 0

\* f = <<x, sample_rate>> stands for a fraction x / sample_rate within [0, 0.5]
InRange(f) == 0 <= f[1] /\ 2 * f[1] <= f[2]

\* C11: new aborts with an assertion failure, constructing no filter, whenever
\* cutoff / sample_rate or bandwidth / sample_rate lies outside [0, 0.5], and
\* returns a filter for every pair of parameters that passes both assertions.
C11_RejectsOutOfRange ==
    ws.state # "none" =>
        IF InRange(ws.fc) /\ InRange(ws.bw)
        THEN ws.state = "built"
        ELSE ws.state \in {"assert_cutoff", "assert_bandwidth"} /\ ws.taps = <<>>

\* C12: a Ui that build returns has the sound_enabled given to sound() and the
\* save_slot given to save_slot() (by default true and 1), and the path, debug,
\* fullscreen and scale of the builder.
C12_BuildReflectsBuilder ==
    (built.called /\ built.res = "Ok") =>
        /\ built.ui.sound_enabled = built.from.sound
        /\ built.ui.save_slot = built.from.save_slot
        /\ built.ui.path = built.from.path
        /\ built.ui.console.debug = built.from.debug
        /\ built.ui.window.fullscreen = built.from.fullscreen
        /\ built.ui.window.scale = built.from.scale

\* Left and Right are not both pressed, nor Up and Down
NoOpposite(joypad) ==
    /\ ~({"Left", "Right"} \subseteq joypad)
    /\ ~({"Up", "Down"} \subseteq joypad)

\* C13: with concurrent_dpad disabled, an input handler called on a joypad on
\* which no two opposite directions are pressed leaves no two opposite
\* directions pressed on it, whatever the button, the value and the mode.
C13_NoOppositeDirections ==
    [][\A slot \in Slots :
          (~nes.concurrent_dpad /\ NoOpposite(nes.joypads[slot]))
              => NoOpposite(nes'.joypads[slot])]_vars

\* C13 witness: with concurrent_dpad disabled, Left was pressed on a joypad
\* that had Right and Up pressed; the call released Right
C13_Witness ==
    /\ ~nes.concurrent_dpad
    /\ call.op = "joypad" /\ call.slot = "One" /\ call.button = "Left" /\ call.pressed
    /\ call.released = {"Right"}
    /\ nes.joypads["One"] = {"Left", "Up"}

\* C14: when an axis returns to zero (AxisDirection::None, bound to
\* ZeroAxis([b1, b2])) in Playing mode, both b1 and b2 are released on the
\* joypad of the controller's slot afterwards.
C14_ZeroAxisReleasesBoth ==
    (call.op = "axis" /\ call.slot # "None" /\ call.button[2] = "None"
        /\ nes.mode = "Playing")
    => LET buttons == input_map(call.button[1], "None").buttons
       IN /\ buttons[1] \notin nes.joypads[call.slot]
          /\ buttons[2] \notin nes.joypads[call.slot]

\* C16: when the mode is not Playing, a joypad input (Action::Joypad or
\* Action::ZeroAxis, pressed or released) changes no joypad and is reported as
\* not handled.
C16_JoypadOnlyWhilePlaying ==
    [][(call'.op \in {"joypad", "axis"} /\ nes.mode # "Playing")
          => /\ nes'.joypads = nes.joypads
             /\ ~call'.handled]_vars

\* C16 witness: while paused, with A and Left held on joypad One, a release of
\* A was not handled and A is still held
C16_Witness ==
    /\ nes.mode = "Paused"
    /\ call.op = "joypad" /\ call.slot = "One" /\ call.button = "A" /\ ~call.pressed
    /\ ~call.handled
    /\ nes.joypads["One"] = {"A", "Left"}

\* the turbo button TurboA / TurboB and its primary button A / B have the
\* value p on the joypad
TurboPairIs(joypad, turbo_button, p) ==
    /\ (turbo_button \in joypad) = p
    /\ ((IF turbo_button = "TurboA" THEN "A" ELSE "B") \in joypad) = p

\* C17: the primary button is never left stuck by its turbo button.  In
\* Playing mode handle_joypad_pressed of TurboA (TurboB) with pressed = p sets
\* TurboA and A (TurboB and B) to p, whatever was pressed before.  In Ui a
\* key-up (A, S) or button-up (X, Y) of a turbo input leaves turbo_a and a
\* (turbo_b and b) false, a step that ends the turbo leaves the primary button
\* false, and clock_turbo does not change a (b) while turbo_a (turbo_b) is false.
C17_TurboNeverSticks ==
    /\ [](\A slot \in Slots, p \in BOOLEAN, turbo_button \in {"TurboA", "TurboB"},
             held \in SUBSET {"A", "B", "TurboA", "TurboB"}, dpad \in BOOLEAN :
             LET n == [NewNes EXCEPT !.joypads[slot] = held, !.concurrent_dpad = dpad]
                 r == handle_joypad_pressed(n, slot, turbo_button, p)
             IN r.handled /\ TurboPairIs(r.nes.joypads[slot], turbo_button, p))
    /\ [](\A t \in BOOLEAN :
             /\ LET g == handle_event(ui, KeyUp("A"), t, TRUE).ui.input.gamepad1
                IN ~g.turbo_a /\ ~g.a
             /\ LET g == handle_event(ui, KeyUp("S"), t, TRUE).ui.input.gamepad1
                IN ~g.turbo_b /\ ~g.b
             /\ \A id \in {0, 1} :
                   /\ LET g == handle_event(ui, ButtonUp(id, "X"), t, TRUE).ui.input[PadName(id)]
                      IN ~g.turbo_a /\ ~g.a
                   /\ LET g == handle_event(ui, ButtonUp(id, "Y"), t, TRUE).ui.input[PadName(id)]
                      IN ~g.turbo_b /\ ~g.b)
    /\ [][\A pad \in {"gamepad1", "gamepad2"} :
             /\ (ui.input[pad].turbo_a /\ ~ui'.input[pad].turbo_a) => ~ui'.input[pad].a
             /\ (ui.input[pad].turbo_b /\ ~ui'.input[pad].turbo_b) => ~ui'.input[pad].b
             /\ (pc = "poll" /\ pc' = "events" /\ ~ui.input[pad].turbo_a)
                   => ui'.input[pad].a = ui.input[pad].a
             /\ (pc = "poll" /\ pc' = "events" /\ ~ui.input[pad].turbo_b)
                   => ui'.input[pad].b = ui.input[pad].b
         ]_vars

\* C17 witness: the events of a poll whose turbo phase is on are handled; on
\* gamepad1 the turbo input of B is held and B was set by the poll, while the
\* turbo input of A is not held and A is false
C17_Witness ==
    /\ pc = "events" /\ turbo
    /\ ui.input.gamepad1.turbo_b /\ ui.input.gamepad1.b
    /\ ~ui.input.gamepad1.turbo_a /\ ~ui.input.gamepad1.a
    /\ ui.turbo_clock > 0

\* C15: after any sequence of LeftX / LeftY axis-motion events, left and right
\* are never both true and up and down are never both true on a gamepad; an
\* event whose value lies within the deadzone [-8000, 8000] sets both
\* directions of its axis to false.
C15_AxisDirectionsExclusive ==
    /\ \A pad \in {"gamepad1", "gamepad2"} :
          /\ ~(ui.input[pad].left /\ ui.input[pad].right)
          /\ ~(ui.input[pad].up /\ ui.input[pad].down)
    /\ \A id \in {0, 1}, t \in BOOLEAN,
          v \in {-GAMEPAD_AXIS_DEADZONE, 0, GAMEPAD_AXIS_DEADZONE} :
          /\ LET g == handle_gamepad_axis(ui, id, "LeftX", v, t).ui.input[PadName(id)]
             IN ~g.left /\ ~g.right
          /\ LET g == handle_gamepad_axis(ui, id, "LeftY", v, t).ui.input[PadName(id)]
             IN ~g.up /\ ~g.down

\* C18: after any sequence of Ctrl+'=' / Ctrl+'-' presses and fast-forward
\* toggles from DEFAULT_SPEED, speed is a multiple of 25 with
\* MIN_SPEED <= speed <= MAX_SPEED, and every iteration of the run loop that
\* clocks frames clocks max(1, floor(speed / 100)) of them, which is 1 or 2.
C18_SpeedInRange ==
    /\ [](/\ ui.speed % 25 = 0
          /\ MIN_SPEED <= ui.speed /\ ui.speed <= MAX_SPEED
          /\ frames_left \in 0..2)
    /\ [][(pc = "events" /\ pc' = "frames") =>
             /\ frames_left' = (IF ui.speed < 200 THEN 1 ELSE 2)
             /\ frames_left' \in {1, 2}
         ]_vars

\* C18 witness: the speed was lowered to MIN_SPEED with Ctrl+'-', and an
\* iteration is about to clock its one frame
C18_Witness ==
    /\ ui.speed = MIN_SPEED /\ ui.console.speed = MIN_SPEED
    /\ ui.lctrl /\ ~ui.fastforward
    /\ pc = "frames" /\ frames_left = 1

\* C19: while paused is true an iteration of the run loop clocks no frame,
\* leaves turbo_clock unchanged and renders and enqueues nothing, and the next
\* iteration polls the events again; paused changes only when toggle_menu is
\* called (Escape key-down or LeftStick button-down), which flips it.
C19_PausedIterationIdle ==
    /\ [](pc = "frames" => ~ui.paused)
    /\ [](\A t \in BOOLEAN, id \in {0, 1} :
             /\ handle_event(ui, KeyDown("Escape"), t, TRUE).ui.paused = ~ui.paused
             /\ handle_event(ui, ButtonDown(id, "LeftStick"), t, TRUE).ui.paused = ~ui.paused)
    /\ [][/\ (pc = "events" /\ pc' \in {"loop", "frames"}) =>
               IF ui.paused
               THEN pc' = "loop" /\ ui' = ui /\ frames_left' = 0
               ELSE pc' = "frames" /\ frames_left' > 0
          /\ (ui.paused /\ ui'.paused) =>
               /\ ui'.turbo_clock = ui.turbo_clock
               /\ ui'.window.enqueued = ui.window.enqueued
               /\ ui'.console.audio = ui.console.audio
          /\ (ui.paused /\ pc = "loop" /\ ~ui.should_close) => pc' = "poll"
          /\ (ui'.paused # ui.paused) =>
               /\ pc = "events"
               /\ \E e \in {KeyDown("Escape"), ButtonDown(0, "LeftStick")} :
                     ui' = handle_event(ui, e, turbo, TRUE).ui
         ]_vars

\* C19 witness: frames were clocked, then the Ui was paused, and a paused
\* iteration has ended without clocking; the loop is about to poll again
C19_Witness ==
    /\ ui.paused /\ ~ui.should_close
    /\ pc = "loop"
    /\ ui.turbo_clock = 1
    /\ ui.console.audio = 0

\* C20: should_close, once set (by a Quit event or by Ctrl+Q), is never reset,
\* and run leaves its loop at the end of the iteration in which it was set: no
\* further poll is made, so at most one more batch of 1 or 2 frames is clocked.
C20_QuitStopsLoop ==
    /\ [](ui.should_close => pc # "poll")
    /\ [](\A t \in BOOLEAN :
             /\ handle_event(ui, [type |-> "Quit"], t, TRUE).ui.should_close
             /\ ui.lctrl => handle_event(ui, KeyDown("Q"), t, TRUE).ui.should_close)
    /\ [][/\ ui.should_close => ui'.should_close
          /\ (ui.should_close /\ pc = "loop") => pc' = "power_off"
          /\ (ui.should_close /\ pc = "events" /\ pc' = "frames") => frames_left' \in {1, 2}
          /\ (ui.should_close /\ pc = "frames") => pc' \in {"frames", "loop"}
          /\ (~ui.should_close /\ ui'.should_close) => pc = "events"
         ]_vars

\* C20 witness: Ctrl+Q was handled at speed 200 and the last batch of two
\* frames is about to be clocked
C20_Witness ==
    /\ ui.should_close /\ ui.lctrl
    /\ ui.speed = MAX_SPEED
    /\ pc = "frames" /\ frames_left = 2

\* C21: no sequence of SDL events makes poll_events abort: a controller button
\* or axis event whose controller id is neither 0 nor 1 is ignored and leaves
\* the input state of gamepad1 and gamepad2 unchanged, and a
\* ControllerDeviceAdded event for such an id opens no gamepad.
C21_UnknownPadIgnored ==
    /\ pc # "panicked"
    /\ \A id \in PadIds \ {0, 1}, t \in BOOLEAN :
          /\ \A e \in {ButtonDown(id, "A"), ButtonUp(id, "A"), AxisMotion(id, "LeftX", 0)} :
                LET r == handle_event(ui, e, t, TRUE)
                IN r.res # "Panic" => (r.res = "Ok" /\ r.ui.input = ui.input)
          /\ LET r == handle_event(ui, DeviceAdded(id), t, TRUE)
             IN /\ r.res = "Ok"
                /\ r.ui.gamepad1 = ui.gamepad1 /\ r.ui.gamepad2 = ui.gamepad2

\* C22: when no replay is being recorded, a pressed SoftReset (HardReset)
\* clears the stored error, resets the control deck with Kind::Soft
\* (Kind::Hard), queues the message "Reset" ("Power Cycled"), is reported
\* handled and, if the debugger is open, leaves the mode Paused; a release of
\* the same action changes nothing and is reported not handled.
C22_ResetActions ==
    [][(call'.op = "nes_state" /\ call'.button \in {"SoftReset", "HardReset"}
          /\ nes.replay.mode # "Recording")
       => IF call'.pressed
          THEN /\ call'.handled
               /\ nes'.error = "None"
               /\ nes'.reset_kind = IF call'.button = "SoftReset" THEN "Soft" ELSE "Hard"
               /\ nes'.messages =
                     Append(nes.messages,
                            IF call'.button = "SoftReset" THEN "Reset" ELSE "Power Cycled")
               /\ nes.debugger => nes'.mode = "Paused"
          ELSE ~call'.handled /\ nes' = nes
      ]_vars

\* C22 witness: with the debugger open, a soft reset and then a hard reset
\* were made; the error is cleared and the mode is Paused
C22_Witness ==
    /\ call.op = "nes_state" /\ call.button = "HardReset" /\ call.pressed /\ call.handled
    /\ nes.debugger /\ nes.mode = "Paused" /\ nes.error = "None"
    /\ nes.reset_kind = "Hard"
    /\ nes.messages = <<"Reset", "Power Cycled">>

\* the steps of a debug_step_over whose next instruction is not a JSR: one
\* instruction is clocked and the step is over
StepOverOne ==
    (dbg.stage = "idle" /\ dbg'.op = "step_over" /\ next_instr(cpu, prog).op # "JSR")
    => /\ cpu' = clock_instr(cpu, prog).cpu
       /\ dbg'.stage = "idle"

\* the steps of a debug_step_over whose next instruction is a JSR: the JSR is
\* clocked, the loop runs to the address following the JSR, clocks one
\* instruction at a time while the program counter differs from it, and clocks
\* nothing once it is reached
StepOverJsr ==
    /\ (dbg.stage = "idle" /\ dbg'.op = "step_over" /\ next_instr(cpu, prog).op = "JSR")
       => /\ cpu' = clock_instr(cpu, prog).cpu
          /\ dbg'.stage = "over_loop"
          /\ dbg'.rti_addr = (peek_stack_u16(cpu') + 1) % MemSize
          /\ dbg'.rti_addr = (cpu.pc + 1) % MemSize
    /\ (dbg.stage = "over_loop" /\ cpu.pc # dbg.rti_addr)
       => cpu' = clock_instr(cpu, prog).cpu
    /\ (dbg.stage = "over_loop" /\ cpu.pc = dbg.rti_addr)
       => cpu' = cpu /\ dbg'.stage = "idle"

\* C23, as stated: step-over executes exactly one instruction when the next
\* instruction is not JSR; when it is JSR it keeps executing instructions until
\* the program counter equals the address of the instruction following the JSR
\* (the return address read from the stack after the JSR, plus 1), and stops
\* there.
C23_StepOverStopsAtReturn ==
    [][/\ StepOverOne
       /\ StepOverJsr
       /\ (dbg.stage = "over_loop" /\ dbg'.stage = "idle") => cpu'.pc = dbg.rti_addr
      ]_vars

\* C23, amended: step-over executes exactly one instruction when the next
\* instruction is not JSR; when it is JSR it keeps executing instructions until
\* the program counter equals the address of the instruction following the JSR
\* (the return address read from the stack after the JSR, plus 1) or until
\* clock_instr returns an error, and stops there.
C23_StepOverStopsAtReturnOrError ==
    [][/\ StepOverOne
       /\ StepOverJsr
       /\ (dbg.stage = "over_loop" /\ dbg'.stage = "idle")
          => \/ cpu'.pc = dbg.rti_addr /\ cpu' = cpu
             \/ clock_instr(cpu, prog).res = "Err" /\ cpu' = clock_instr(cpu, prog).cpu
       /\ (dbg.stage = "over_loop" /\ cpu.pc # dbg.rti_addr
             /\ clock_instr(cpu, prog).res = "Ok")
          => dbg'.stage = "over_loop"
      ]_vars

\* C23 witness: a step over a JSR ran the subroutine, which returned, and
\* stopped at the address following the JSR
C23_Witness ==
    /\ dbg.op = "step_over" /\ dbg.instr = "JSR" /\ dbg.stage = "idle"
    /\ ~dbg.erred
    /\ cpu.pc = dbg.rti_addr
    /\ cpu.stack = <<>>
    /\ prog[(dbg.rti_addr + MemSize - 1) % MemSize].op = "JSR"
    /\ prog[(dbg.rti_addr + MemSize - 1) % MemSize].arg # dbg.rti_addr

====
